---- MODULE Spec2Model ----
(***************************************************************************)
(* Model of sunpy/io/_file_tools.py: the signature matcher                 *)
(* (detect_filetype), the reader registry (_READERS), the extension table  *)
(* (_KNOWN_EXTENSIONS), the read dispatch (_read, reached from read_file   *)
(* and read_file_header) and the write path (write_file).                  *)
(*                                                                         *)
(* Bytes are the integers 0..255 and a byte string is a sequence of them.  *)
(* A Python str is a sequence of one-character strings, so that endswith,  *)
(* pathlib's suffix and bytes.hex() are computed rather than assumed.      *)
(***************************************************************************)
EXTENDS Naturals, Sequences, FiniteSets, TLC

(***************************************************************************)
(* Bounds of the model.                                                    *)
(***************************************************************************)
\* longest stream built freely over SniffBytes
MaxLen == 3
\* longest run of bytes appended after a magic constant
MaxTail == 1
\* longest keyword run of a generated FITS card
MaxKey == 9
\* most padding spaces of a generated short FITS card
MaxPad == 2

(***************************************************************************)
(* Python strings used by the module.                                      *)
(***************************************************************************)
\* Python's None, distinct from every str (a str has one-character items)
None == <<"None">>
s_fits == <<"f", "i", "t", "s">>
s_fts == <<"f", "t", "s">>
s_jp2 == <<"j", "p", "2">>
s_j2k == <<"j", "2", "k">>
s_jpc == <<"j", "p", "c">>
s_jpt == <<"j", "p", "t">>
s_ana == <<"a", "n", "a">>
s_fz == <<"f", "z">>
s_f0 == <<"f", "0">>
s_asdf == <<"a", "s", "d", "f">>
s_hdf5 == <<"h", "d", "f", "5">>
s_cdf == <<"c", "d", "f">>
s_auto == <<"a", "u", "t", "o">>
s_xyz == <<"x", "y", "z">>
s_read == <<"r", "e", "a", "d">>
s_get_header == <<"g", "e", "t", "_", "h", "e", "a", "d", "e", "r">>
s_write == <<"w", "r", "i", "t", "e">>

(***************************************************************************)
(* Sequence helpers: Python slicing, startswith, endswith, readline.       *)
(***************************************************************************)
\* s[:n]
Take(s, n) == SubSeq(s, 1, IF n < Len(s) THEN n ELSE Len(s))

\* s.startswith(p)
StartsWith(s, p) == Len(p) <= Len(s) /\ SubSeq(s, 1, Len(p)) = p

\* s.endswith(p) for one suffix p
EndsWith(s, p) == Len(p) <= Len(s) /\ SubSeq(s, Len(s) - Len(p) + 1, Len(s)) = p

\* x in tup, for a tuple tup
InTuple(x, tup) == \E i \in 1..Len(tup) : tup[i] = x

\* s.endswith(tup) for a tuple of suffixes
EndsWithAny(s, tup) == \E i \in 1..Len(tup) : EndsWith(s, tup[i])

\* fp.readline() at cursor pos: through the first newline byte, or to the end
ReadLine(data, pos) ==
    LET nl == {i \in (pos + 1)..Len(data) : data[i] = 10}
    IN  IF nl = {}
        THEN SubSeq(data, pos + 1, Len(data))
        ELSE SubSeq(data, pos + 1, CHOOSE i \in nl : \A j \in nl : i <= j)

\* bytes.hex(): two lowercase hexadecimal digits per byte
HexDigit == <<"0", "1", "2", "3", "4", "5", "6", "7",
              "8", "9", "a", "b", "c", "d", "e", "f">>

Hex(bs) ==
    [i \in 1..(2 * Len(bs)) |->
        LET b == bs[(i + 1) \div 2]
        IN  IF i % 2 = 1 THEN HexDigit[(b \div 16) + 1] ELSE HexDigit[(b % 16) + 1]]

(***************************************************************************)
(* Magic constants of detect_filetype.                                     *)
(***************************************************************************)
\* b"#ASDF"
ASDF_MAGIC == <<35, 65, 83, 68, 70>>

\* b"\x1f\x8b\x08"
GZIP_MAGIC == <<31, 139, 8>>

jp2_signatures ==
    << <<0, 0, 0, 12, 106, 80, 32, 32, 13, 10, 135, 10>>,
       <<0, 0, 0, 12, 106, 80, 26, 26, 13, 10, 135, 10>> >>

\* b'\x89HDF\r\n\x1a\n'
HDF5_MAGIC == <<137, 72, 68, 70, 13, 10, 26, 10>>

\* ['cdf30001', 'cdf26002', '0000ffff']
cdf_magic_numbers ==
    << <<"c", "d", "f", "3", "0", "0", "0", "1">>,
       <<"c", "d", "f", "2", "6", "0", "0", "2">>,
       <<"0", "0", "0", "0", "f", "f", "f", "f">> >>

(***************************************************************************)
(* The FITS keyword-card pattern  [A-Z0-9_]{0,8} *=  matched by re.match   *)
(* (anchored at the start, backtracking over the bounded repetition).      *)
(***************************************************************************)
\* the character class [A-Z0-9_]
IsKeywordByte(b) == (65 <= b /\ b <= 90) \/ (48 <= b /\ b <= 57) \/ b = 95

RECURSIVE SpacesThenEquals(_, _)
\* " *=" matched at index i of s
SpacesThenEquals(s, i) ==
    /\ i <= Len(s)
    /\ \/ s[i] = 61
       \/ s[i] = 32 /\ SpacesThenEquals(s, i + 1)

\* a mutation of the pattern: the keyword is required, {1,8}
FitsCardMatch_KeywordRequired(first80) ==
    \E k \in 1..8 :
        /\ k <= Len(first80)
        /\ \A j \in 1..k : IsKeywordByte(first80[j])
        /\ SpacesThenEquals(first80, k + 1)

\* re.match(br"[A-Z0-9_]{0,8} *=", first80) is not None
FitsCardMatch(first80) ==
    \E k \in 0..8 :
        /\ k <= Len(first80)
        /\ \A j \in 1..k : IsKeywordByte(first80[j])
        /\ SpacesThenEquals(first80, k + 1)

(***************************************************************************)
(* gzip.open(path, 'rb').read(80).  The deflate body of a gzip member is   *)
(* not modelled: what the resource decompresses to is part of the file     *)
(* (field gunzip), and reading raises when the member is truncated or      *)
(* corrupt (gunzip.ok = FALSE).                                            *)
(***************************************************************************)
GzipRead80(file) ==
    IF file.gunzip.ok
    THEN [ok |-> TRUE, data |-> Take(file.gunzip.data, 80)]
    ELSE [ok |-> FALSE, data |-> <<>>]

(***************************************************************************)
(* detect_filetype.  h is the state of the handle the with-block enters:   *)
(* a freshly opened one when an OpenFile is passed, the caller's own       *)
(* handle when _read passes its fp.  The result carries the tag or the     *)
(* exception raised and the cursor the probes leave behind.                *)
(***************************************************************************)
\* a mutation of bytes.hex(): uppercase digits
Hex_Upper(bs) ==
    [i \in 1..(2 * Len(bs)) |->
        LET b == bs[(i + 1) \div 2]
            up == <<"0", "1", "2", "3", "4", "5", "6", "7",
                    "8", "9", "A", "B", "C", "D", "E", "F">>
        IN  IF i % 2 = 1 THEN up[(b \div 16) + 1] ELSE up[(b % 16) + 1]]

\* fp.read(4).hex()
ReadHex(first4) == Hex(first4)

detect_filetype(file, h) ==
    LET data == file.data
        line1 == ReadLine(data, h.pos)
        line2 == ReadLine(data, h.pos + Len(line1))
        first80 == Take(data, 80)
        first_8bytes == Take(data, 8)
        first4 == Take(data, 4)
        cdf_magic_number == ReadHex(first4)
        pos == Len(first4)
        gz == Take(first80, 3) = GZIP_MAGIC
        unzipped == GzipRead80(file)
        probe == IF gz THEN unzipped.data ELSE first80
    IN  IF StartsWith(first80, ASDF_MAGIC)
        THEN [kind |-> "tag", tag |-> s_asdf, pos |-> pos]
        ELSE IF gz /\ ~unzipped.ok
        THEN [kind |-> "GzipError", tag |-> None, pos |-> pos]
        ELSE IF FitsCardMatch(probe)
        THEN [kind |-> "tag", tag |-> s_fits, pos |-> pos]
        ELSE IF \E i \in 1..Len(jp2_signatures) : line1 \o line2 = jp2_signatures[i]
        THEN [kind |-> "tag", tag |-> s_jp2, pos |-> pos]
        ELSE IF first_8bytes = HDF5_MAGIC
        THEN [kind |-> "tag", tag |-> s_hdf5, pos |-> pos]
        ELSE IF InTuple(cdf_magic_number, cdf_magic_numbers)
        THEN [kind |-> "tag", tag |-> s_cdf, pos |-> pos]
        ELSE [kind |-> "UnrecognizedFileTypeError", tag |-> None, pos |-> pos]

(***************************************************************************)
(* The extension table and the reader registry.                            *)
(***************************************************************************)
\* _KNOWN_EXTENSIONS, in the dict's insertion order
_KNOWN_EXTENSIONS ==
    << [extension |-> <<s_fts, s_fits>>, name |-> s_fits],
       [extension |-> <<s_jp2, s_j2k, s_jpc, s_jpt>>, name |-> s_jp2],
       [extension |-> <<s_fz, s_f0>>, name |-> s_ana] >>

\* the module object an import binds for a tag
Module(tag) == <<"module">> \o tag

\* a mutation of the registry's keys: one entry per tag the matcher returns too
ReaderKeys_AllTags == {s_fits, s_jp2, s_ana, s_asdf, s_hdf5, s_cdf}

\* the keys of the dict literal passed to Readers(...)
ReaderKeys == {s_fits, s_jp2, s_ana}

\* Readers({...}) after the three guarded imports; imported is the set of
\* tags whose import succeeded, the others are bound to None
BuildReaders(imported) ==
    [t \in ReaderKeys |-> IF t \in imported THEN Module(t) ELSE None]

\* a mutation of Readers.__getitem__: no check for None
Readers_getitem_NoCheck(readers, key) ==
    IF key \notin DOMAIN readers
    THEN [kind |-> "KeyError", val |-> None]
    ELSE [kind |-> "ok", val |-> readers[key]]

\* Readers.__getitem__: dict.__getitem__, then ReaderError when the value is None
Readers_getitem(readers, key) ==
    IF key \notin DOMAIN readers
    THEN [kind |-> "KeyError", val |-> None]
    ELSE IF readers[key] = None
    THEN [kind |-> "ReaderError", val |-> None]
    ELSE [kind |-> "ok", val |-> readers[key]]

\* getattr(_READERS[key], function_name)(fp): the lookup, then the call of
\* the handler's operation on handle h; the record keeps what the handler
\* is handed (cursor, open or closed) or the exception of the lookup
Invoke(readers, key, function_name, h) ==
    LET r == Readers_getitem(readers, key)
    IN  [kind |-> IF r.kind = "ok" THEN "invoked" ELSE r.kind,
         key |-> key, handler |-> r.val, op |-> function_name,
         pos |-> h.pos, open |-> h.open]

\* an exception raised outside any lookup
Raise(kind) ==
    [kind |-> kind, key |-> None, handler |-> None, op |-> None,
     pos |-> 0, open |-> FALSE]

\* the index of the first group of _KNOWN_EXTENSIONS the path ends with or
\* that holds filetype; 0 when the loop falls through
FirstGroup(path, filetype) ==
    LET hits == {i \in 1..Len(_KNOWN_EXTENSIONS) :
                    \/ EndsWithAny(path, _KNOWN_EXTENSIONS[i].extension)
                    \/ InTuple(filetype, _KNOWN_EXTENSIONS[i].extension)}
    IN  IF hits = {} THEN 0 ELSE CHOOSE i \in hits : \A j \in hits : i <= j

(***************************************************************************)
(* pathlib.Path(path).suffix for a path of '/'-separated components.       *)
(***************************************************************************)
\* the final component of the path
PathName(path) ==
    LET sl == {i \in 1..Len(path) : path[i] = "/"}
    IN  IF sl = {} THEN path
        ELSE SubSeq(path, (CHOOSE i \in sl : \A j \in sl : j <= i) + 1, Len(path))

\* PurePath.suffix: from the last dot of the name, unless the name has no
\* dot, starts with its only dot or ends with the dot
PathSuffix(path) ==
    LET name == PathName(path)
        dots == {i \in 1..Len(name) : name[i] = "."}
        i == CHOOSE d \in dots : \A e \in dots : e <= d
    IN  IF dots = {} THEN <<>>
        ELSE IF 1 < i /\ i < Len(name) THEN SubSeq(name, i, Len(name))
        ELSE <<>>

\* a mutation of the suffix slice: the dot is kept
WriteFiletype_KeepDot(path, filetype) ==
    IF filetype = s_auto THEN PathSuffix(path) ELSE filetype

\* write_file's filetype: pathlib.Path(open_file.path).suffix[1:] for 'auto'
WriteFiletype(path, filetype) ==
    LET suffix == PathSuffix(path)
    IN  IF filetype = s_auto
        THEN (IF suffix = <<>> THEN <<>> ELSE Tail(suffix))
        ELSE filetype

(***************************************************************************)
(* The inputs the calls are drawn from.                                    *)
(***************************************************************************)
\* every sequence over S of length at most n
SeqsUpTo(S, n) == UNION {[1..k -> S] : k \in 0..n}

\* n copies of byte b
Rep(b, n) == [j \in 1..n |-> b]

\* the bytes a CDF magic number is the hex rendering of
CdfMagicBytes == {<<205, 243, 0, 1>>, <<205, 242, 96, 2>>, <<0, 0, 255, 255>>}

\* the magic constants as byte strings
MagicBytes ==
    {ASDF_MAGIC, HDF5_MAGIC} \cup {jp2_signatures[i] : i \in 1..Len(jp2_signatures)}
        \cup CdfMagicBytes

\* 'A', ' ', '=', 'a', newline
SniffBytes == {65, 32, 61, 97, 10}

\* bytes that follow a magic constant: newline, '=', 'A', NUL, 0xff
TailBytes == {10, 61, 65, 0, 255}

\* bytes at the edges of the ranges of [A-Z0-9_]
ClassEdgeBytes == {47, 48, 57, 58, 64, 65, 90, 91, 94, 95, 96, 97, 122}

\* paddings that put the '=' of a card around the end of the 80-byte probe
LongPads == {70, 71, 72}

\* a FITS card: k keyword bytes 'A', m spaces, '='
Card(k, m) == Rep(65, k) \o Rep(32, m) \o <<61>>

\* b"SIMPLE  = T"
SimpleCard == <<83, 73, 77, 80, 76, 69, 32, 32, 61, 32, 84>>

PlainStreams ==
    SeqsUpTo(SniffBytes, MaxLen)
        \cup {m \o t : m \in MagicBytes, t \in SeqsUpTo(TailBytes, MaxTail)}
        \cup {Take(m, k) : m \in MagicBytes, k \in 1..11}
        \cup {Card(k, m) : k \in 0..MaxKey, m \in (0..MaxPad) \cup LongPads}
        \cup {<<b, 61>> : b \in ClassEdgeBytes}
        \cup {SimpleCard, <<205, 243, 0, 2>>, <<31, 139>>, <<31, 139, 9, 61>>}

\* a resource that is not a gzip member: gzip.open(...).read raises on it
Plain(data) == [data |-> data, gunzip |-> [ok |-> FALSE, data |-> <<>>]]

\* a resource holding a whole gzip member that decompresses to payload;
\* its compressed body is opaque, i tells the members apart
GzipMember(i, payload) ==
    [data |-> GZIP_MAGIC \o Rep(i, 15), gunzip |-> [ok |-> TRUE, data |-> payload]]

\* what the gzip members of the model decompress to
GzipPayloads ==
    << SimpleCard, <<61>>, Card(8, 71), Card(8, 72), ASDF_MAGIC, jp2_signatures[1],
       HDF5_MAGIC, <<97, 97>>, <<>> >>

GzipContents ==
    {GzipMember(i, GzipPayloads[i]) : i \in 1..Len(GzipPayloads)}
        \cup {Plain(Take(GZIP_MAGIC \o Rep(255, 15), k)) : k \in {3, 4, 18}}

\* the contents detect_filetype is called on
DetectContents == {Plain(d) : d \in PlainStreams} \cup GzipContents

\* the contents read_file and read_file_header are called on
ReadContents ==
    {Plain(d) : d \in {<<>>, <<97>>, <<61>>, SimpleCard, ASDF_MAGIC \o <<10>>,
                       jp2_signatures[1] \o <<0>>, HDF5_MAGIC, <<205, 243, 0, 1>>,
                       <<97, 97, 97, 97, 97>>}}
        \cup {GzipMember(1, SimpleCard), GzipMember(8, <<97, 97>>), Plain(GZIP_MAGIC)}

\* every extension of _KNOWN_EXTENSIONS
KnownExtensions ==
    UNION {{_KNOWN_EXTENSIONS[i].extension[j] :
                j \in 1..Len(_KNOWN_EXTENSIONS[i].extension)} :
           i \in 1..Len(_KNOWN_EXTENSIONS)}

Paths ==
    {<<"a", ".">> \o e : e \in KnownExtensions \cup {s_xyz, s_ana}}
        \cup {<<"o">>, s_fits, <<".">> \o s_fz, <<"a", ".">>,
              <<"a", ".">> \o s_fits \o <<".", "g", "z">>,
              <<"b", ".">> \o s_fz \o <<"/", "o">>,
              <<"d", "/", "i", ".">> \o s_j2k}

\* filetype arguments of read_file and read_file_header
ReadFiletypes == {None, s_fits, s_jp2, s_ana, s_asdf, s_xyz} \cup KnownExtensions

\* filetype arguments of write_file
WriteFiletypes == {s_auto, s_fits, s_jp2, s_ana, s_asdf, s_xyz} \cup KnownExtensions

\* the arguments of read_file and read_file_header: every path and content
\* without a filetype, and every filetype on a few paths and contents
ReadInputs ==
    [path : Paths, content : ReadContents, filetype : {None}]
        \cup [path : {<<"o">>, <<"a", ".">> \o s_fits, <<"a", ".">> \o s_xyz},
              content : {Plain(<<>>), Plain(SimpleCard), Plain(<<97, 97, 97, 97, 97>>)},
              filetype : ReadFiletypes \ {None}]

File(path, content) ==
    [path |-> path, data |-> content.data, gunzip |-> content.gunzip]

(***************************************************************************)
(* State.                                                                  *)
(***************************************************************************)
VARIABLES
    \* the reader registry, built when the module is imported
    _READERS,
    \* where the call in progress stands: "idle", "opened" (inside _read's
    \* with-block), "detected" (detect_filetype has returned), "done"
    pc,
    \* the call in progress: [api, file, filetype, function_name]
    call,
    \* the handle fp that _read's with-block acquired: [open, pos]
    fp,
    \* what detect_filetype returned or raised in this call
    sniff,
    \* what the call did: [sniffed, extChecked, lookups]
    trace,
    \* how the call ended: a handler invocation or an exception
    outcome

vars == <<_READERS, pc, call, fp, sniff, trace, outcome>>

NoFile == File(<<>>, Plain(<<>>))
NoCall == [api |-> "none", file |-> NoFile, filetype |-> None, function_name |-> None]
NoHandle == [open |-> FALSE, pos |-> 0]
NoSniff == [kind |-> "none", tag |-> None, pos |-> 0]
NoTrace == [sniffed |-> FALSE, extChecked |-> FALSE, lookups |-> <<>>]
NoOutcome == Raise("none")

\* the module is imported: each of the three codec imports succeeds or fails
Init ==
    /\ \E imported \in SUBSET ReaderKeys : _READERS = BuildReaders(imported)
    /\ pc = "idle"
    /\ call = NoCall
    /\ fp = NoHandle
    /\ sniff = NoSniff
    /\ trace = NoTrace
    /\ outcome = NoOutcome

(***************************************************************************)
(* read_file / read_file_header: get_open_file, then _read enters its      *)
(* with-block, which opens the resource with the cursor at the start.      *)
(***************************************************************************)
EnterRead(api, function_name, path, content, filetype) ==
    /\ pc = "idle"
    /\ call' = [api |-> api, file |-> File(path, content), filetype |-> filetype,
                function_name |-> function_name]
    /\ fp' = [open |-> TRUE, pos |-> 0]
    /\ pc' = "opened"
    /\ sniff' = NoSniff
    /\ trace' = NoTrace
    /\ outcome' = NoOutcome
    /\ UNCHANGED _READERS

read_file ==
    \E a \in ReadInputs :
        EnterRead("read_file", s_read, a.path, a.content, a.filetype)

read_file_header ==
    \E a \in ReadInputs :
        EnterRead("read_file_header", s_get_header, a.path, a.content, a.filetype)

\* a mutation of the test on filetype: inverted
ExplicitGiven_Inverted(filetype) == filetype = None

\* if filetype is not None
ExplicitGiven(filetype) == filetype # None

\* _read with a filetype: the registry lookup and the handler's call, then
\* the with-block's exit closes fp
_read_explicit ==
    /\ pc = "opened"
    /\ ExplicitGiven(call.filetype)
    /\ outcome' = Invoke(_READERS, call.filetype, call.function_name, fp)
    /\ trace' = [trace EXCEPT !.lookups = Append(@, call.filetype)]
    /\ fp' = [fp EXCEPT !.open = FALSE]
    /\ pc' = "done"
    /\ UNCHANGED <<_READERS, call, sniff>>

\* _read without a filetype calls detect_filetype(fp): its with-block enters
\* the handle it is given and closes it on exit; an exception other than
\* UnrecognizedFileTypeError leaves _read
_read_detect ==
    /\ pc = "opened"
    /\ ~ExplicitGiven(call.filetype)
    /\ LET r == detect_filetype(call.file, fp)
       IN  /\ sniff' = r
           /\ fp' = [open |-> FALSE, pos |-> r.pos]
           /\ trace' = [trace EXCEPT !.sniffed = TRUE]
           /\ IF r.kind = "GzipError"
              THEN pc' = "done" /\ outcome' = Raise("GzipError")
              ELSE pc' = "detected" /\ outcome' = outcome
    /\ UNCHANGED <<_READERS, call>>

\* readername in _READERS.keys()
SniffedIsRegistered == sniff.kind = "tag" /\ sniff.tag \in DOMAIN _READERS

\* the sniffed tag has a registry entry: lookup and call of the handler
_read_sniffed ==
    /\ pc = "detected"
    /\ SniffedIsRegistered
    /\ outcome' = Invoke(_READERS, sniff.tag, call.function_name, fp)
    /\ trace' = [trace EXCEPT !.lookups = Append(@, sniff.tag)]
    /\ pc' = "done"
    /\ UNCHANGED <<_READERS, call, fp, sniff>>

\* detection failed or returned a tag without a registry entry: the loop
\* over _KNOWN_EXTENSIONS, then UnrecognizedFileTypeError
_read_fallback ==
    /\ pc = "detected"
    /\ ~SniffedIsRegistered
    /\ LET g == FirstGroup(call.file.path, call.filetype)
       IN  IF g # 0
           THEN /\ outcome' = Invoke(_READERS, _KNOWN_EXTENSIONS[g].name,
                                     call.function_name, fp)
                /\ trace' = [trace EXCEPT !.extChecked = TRUE,
                                          !.lookups = Append(@, _KNOWN_EXTENSIONS[g].name)]
           ELSE /\ outcome' = Raise("UnrecognizedFileTypeError")
                /\ trace' = [trace EXCEPT !.extChecked = TRUE]
    /\ pc' = "done"
    /\ UNCHANGED <<_READERS, call, fp, sniff>>

(***************************************************************************)
(* write_file: the filetype from the argument or the suffix, the first     *)
(* extension group that holds it, the handler's write on the OpenFile.     *)
(***************************************************************************)
write_file ==
    \E path \in Paths, filetype \in WriteFiletypes :
        /\ pc = "idle"
        /\ call' = [api |-> "write_file", file |-> File(path, Plain(<<>>)),
                    filetype |-> filetype, function_name |-> s_write]
        /\ LET ft == WriteFiletype(path, filetype)
               g == FirstGroup(<<>>, ft)
           IN  IF g # 0
               THEN /\ outcome' = Invoke(_READERS, _KNOWN_EXTENSIONS[g].name,
                                         s_write, NoHandle)
                    /\ trace' = [NoTrace EXCEPT !.extChecked = TRUE,
                                     !.lookups = <<_KNOWN_EXTENSIONS[g].name>>]
               ELSE /\ outcome' = Raise("ValueError")
                    /\ trace' = [NoTrace EXCEPT !.extChecked = TRUE]
        /\ pc' = "done"
        /\ fp' = NoHandle
        /\ sniff' = NoSniff
        /\ UNCHANGED _READERS

(***************************************************************************)
(* detect_filetype called on an OpenFile: its with-block opens the         *)
(* resource and closes it.                                                 *)
(***************************************************************************)
detect_filetype_call ==
    \E content \in DetectContents :
        /\ pc = "idle"
        /\ call' = [api |-> "detect_filetype", file |-> File(<<"f">>, content),
                    filetype |-> None, function_name |-> None]
        /\ LET r == detect_filetype(File(<<"f">>, content), [open |-> TRUE, pos |-> 0])
           IN  /\ sniff' = r
               /\ fp' = [open |-> FALSE, pos |-> r.pos]
               /\ outcome' = IF r.kind = "tag"
                             THEN [Raise("returned") EXCEPT !.key = r.tag]
                             ELSE Raise(r.kind)
        /\ trace' = [NoTrace EXCEPT !.sniffed = TRUE]
        /\ pc' = "done"
        /\ UNCHANGED _READERS

\* the call has returned or raised; the next call starts afresh
Return ==
    /\ pc = "done"
    /\ pc' = "idle"
    /\ call' = NoCall
    /\ fp' = NoHandle
    /\ sniff' = NoSniff
    /\ trace' = NoTrace
    /\ outcome' = NoOutcome
    /\ UNCHANGED _READERS

Next ==
    \/ read_file
    \/ read_file_header
    \/ _read_explicit
    \/ _read_detect
    \/ _read_sniffed
    \/ _read_fallback
    \/ write_file
    \/ detect_filetype_call
    \/ Return

Spec == Init /\ [][Next]_vars

(***************************************************************************)
(* Vocabulary of the properties.                                           *)
(***************************************************************************)
IsReadCall == call.api \in {"read_file", "read_file_header"}

\* the call ended in the handler's operation being called
Invoked == outcome.kind = "invoked"

\* uppercase letters, digits and underscore
KeywordChars == (65..90) \cup (48..57) \cup {95}

\* the number of leading bytes of s that are in S
LeadingRun(s, S) == Cardinality({k \in 1..Len(s) : \A j \in 1..k : s[j] \in S})

\* s begins with lo to 8 keyword characters, then spaces, then '='
CardShape(s, lo) ==
    LET run == LeadingRun(s, KeywordChars)
        sp == LeadingRun(SubSeq(s, run + 1, Len(s)), {32})
    IN  /\ lo <= run
        /\ run <= 8
        /\ run + sp + 1 <= Len(s)
        /\ s[run + sp + 1] = 61

IsGzip(file) == StartsWith(file.data, GZIP_MAGIC)

\* the 80 bytes the card rule is applied to, when there are any
HasProbe(file) == IsGzip(file) => file.gunzip.ok
ProbeOf(file) ==
    IF IsGzip(file) THEN Take(file.gunzip.data, 80) ELSE Take(file.data, 80)

\* the magic constants in priority order: asdf 1, fits 2, jp2 3, hdf5 4, cdf 5
MagicTable ==
    {[magic |-> ASDF_MAGIC, tag |-> s_asdf, rank |-> 1],
     [magic |-> jp2_signatures[1], tag |-> s_jp2, rank |-> 3],
     [magic |-> jp2_signatures[2], tag |-> s_jp2, rank |-> 3],
     [magic |-> HDF5_MAGIC, tag |-> s_hdf5, rank |-> 4]}
        \cup {[magic |-> m, tag |-> s_cdf, rank |-> 5] : m \in CdfMagicBytes}

\* a heuristic of priority before rank matches the file
EarlierMatch(file, rank) ==
    \/ rank > 2 /\ HasProbe(file) /\ CardShape(ProbeOf(file), 0)
    \/ \E e \in MagicTable : e.rank < rank /\ StartsWith(file.data, e.magic)

\* no byte-level signature matches the file
NoSignature(file) ==
    /\ ~(HasProbe(file) /\ CardShape(ProbeOf(file), 0))
    /\ \A e \in MagicTable : ~StartsWith(file.data, e.magic)

\* the tag of the extension group that holds ext, None when none does
GroupTag(ext) ==
    LET hits == {i \in 1..Len(_KNOWN_EXTENSIONS) :
                    InTuple(ext, _KNOWN_EXTENSIONS[i].extension)}
    IN  IF hits = {} THEN None ELSE _KNOWN_EXTENSIONS[CHOOSE i \in hits : TRUE].name

\* the call looked tag up once and ended there: in the handler's operation
\* op when the handler is present, in ReaderError naming tag when absent
DispatchedTo(tag, op) ==
    /\ trace.lookups = <<tag>>
    /\ outcome.key = tag
    /\ outcome.op = op
    /\ tag \in DOMAIN _READERS
    /\ IF _READERS[tag] = None
       THEN outcome.kind = "ReaderError" /\ outcome.handler = None
       ELSE Invoked /\ outcome.handler = Module(tag)

(***************************************************************************)
(* C1.  Whenever _read calls a handler's read or get_header, the cursor of *)
(* the stream it hands over is at position 0, on every resolution path.    *)
(***************************************************************************)
C1_CursorAtStartOnHandoff ==
    (IsReadCall /\ Invoked) => outcome.pos = 0

(***************************************************************************)
(* C2.  Without an explicit tag, the handle the matcher sniffed is not     *)
(* closed between sniffing and the handler's call: the handler is called   *)
(* on that handle while it is still open.                                  *)
(***************************************************************************)
C2_SniffedHandleStaysOpen ==
    (IsReadCall /\ trace.sniffed /\ Invoked) => outcome.open

(***************************************************************************)
(* C3.  A stream whose leading bytes equal a magic constant (#ASDF, a JP2  *)
(* signature, the HDF5 magic, a CDF magic) and that no earlier heuristic   *)
(* in the order asdf, fits, jp2, hdf5, cdf matches is detected as that     *)
(* constant's tag, whatever bytes follow the constant.                     *)
(***************************************************************************)
C3_MagicDetected ==
    sniff.kind # "none" =>
        \A e \in MagicTable :
            (StartsWith(call.file.data, e.magic) /\ ~EarlierMatch(call.file, e.rank))
                => (sniff.kind = "tag" /\ sniff.tag = e.tag)

\* a CDF magic followed by a further byte has been detected as cdf
C3_Witness ==
    /\ call.api = "detect_filetype"
    /\ pc = "done"
    /\ \E m \in CdfMagicBytes : StartsWith(call.file.data, m)
    /\ Len(call.file.data) > 4
    /\ outcome.kind = "returned"
    /\ outcome.key = s_cdf

(***************************************************************************)
(* C4.  With an explicit tag, read_file / read_file_header never call the  *)
(* signature matcher and make no extension check: the tag is looked up in  *)
(* the registry and the operation is called on that handler, also for a    *)
(* stream that has no valid signature.                                     *)
(***************************************************************************)
C4_ExplicitSkipsSniffing ==
    (IsReadCall /\ call.filetype # None /\ pc = "done") =>
        /\ ~trace.sniffed
        /\ sniff = NoSniff
        /\ ~trace.extChecked
        /\ trace.lookups = <<call.filetype>>
        /\ outcome.key = call.filetype
        /\ (call.filetype \in DOMAIN _READERS /\ _READERS[call.filetype] # None)
              => /\ Invoked
                 /\ outcome.handler = Module(call.filetype)
                 /\ outcome.op = call.function_name

\* the fits handler was called, by tag, on a stream no signature matches
C4_Witness ==
    /\ IsReadCall
    /\ pc = "done"
    /\ call.filetype = s_fits
    /\ NoSignature(call.file)
    /\ Len(call.file.data) > 0
    /\ Invoked
    /\ outcome.handler = Module(s_fits)

(***************************************************************************)
(* C5.  For a stream that no byte-level signature matches (an empty or     *)
(* truncated one included) and no explicit tag, detection fails with       *)
(* UnrecognizedFileTypeError and dispatch falls back to the extension      *)
(* table: the operation goes to the handler of the first group the         *)
(* filename matches, and the call fails with UnrecognizedFileTypeError,    *)
(* calling no handler, when no group matches.                              *)
(***************************************************************************)
C5_NoSignatureFallsBackToExtension ==
    (IsReadCall /\ call.filetype = None /\ pc = "done" /\ NoSignature(call.file)) =>
        /\ sniff.kind = "UnrecognizedFileTypeError"
        /\ trace.extChecked
        /\ LET g == FirstGroup(call.file.path, None)
           IN  IF g # 0
               THEN DispatchedTo(_KNOWN_EXTENSIONS[g].name, call.function_name)
               ELSE /\ outcome.kind = "UnrecognizedFileTypeError"
                    /\ trace.lookups = <<>>

(***************************************************************************)
(* C6.  Building the registry never fails when a codec is missing, and a   *)
(* lookup of a tag whose entry exists but whose handler is absent fails    *)
(* with ReaderError naming the reader, unlike the lookup of a tag without  *)
(* an entry (KeyError); the failure ends the call, no other handler is     *)
(* tried.                                                                  *)
(***************************************************************************)
C6_AbsentHandlerFailsLoudly ==
    /\ \A t \in DOMAIN _READERS : _READERS[t] \in {None, Module(t)}
    /\ (pc = "done" /\ trace.lookups # <<>>) =>
          LET key == trace.lookups[1]
          IN  /\ Len(trace.lookups) = 1
              /\ outcome.key = key
              /\ (key \in DOMAIN _READERS /\ _READERS[key] = None)
                    => (outcome.kind = "ReaderError" /\ outcome.handler = None)
              /\ key \notin DOMAIN _READERS => outcome.kind = "KeyError"
              /\ outcome.kind = "ReaderError"
                    => (key \in DOMAIN _READERS /\ _READERS[key] = None)

\* a sniffed fits stream, the fits reader missing: ReaderError left _read
C6_Witness ==
    /\ IsReadCall
    /\ pc = "done"
    /\ sniff.kind = "tag"
    /\ sniff.tag = s_fits
    /\ _READERS[s_fits] = None
    /\ _READERS[s_jp2] # None
    /\ outcome.kind = "ReaderError"
    /\ outcome.key = s_fits

(***************************************************************************)
(* C7.  write_file never sniffs content: its filetype is the destination   *)
(* filename's suffix without the dot when 'auto' is given and the given    *)
(* filetype otherwise; the write operation of the handler whose extension  *)
(* group holds that filetype is called, and the call fails with            *)
(* ValueError, calling no handler, when no group holds it.                 *)
(***************************************************************************)
\* the ext for which the path's final component reads <stem>.<ext>, stem and
\* ext not empty and ext without a dot; the empty string when there is none
SuffixWithoutDot(path) ==
    LET at == {i \in 2..(Len(path) - 1) :
                  /\ path[i] = "."
                  /\ path[i - 1] # "/"
                  /\ \A j \in (i + 1)..Len(path) : path[j] \notin {".", "/"}}
    IN  IF at = {} THEN <<>>
        ELSE SubSeq(path, (CHOOSE i \in at : TRUE) + 1, Len(path))

C7_WriteByExtension ==
    (call.api = "write_file" /\ pc = "done") =>
        LET ft == IF call.filetype = s_auto
                  THEN SuffixWithoutDot(call.file.path)
                  ELSE call.filetype
        IN  /\ ~trace.sniffed
            /\ sniff = NoSniff
            /\ IF GroupTag(ft) # None
               THEN DispatchedTo(GroupTag(ft), s_write)
               ELSE outcome.kind = "ValueError" /\ trace.lookups = <<>>

\* 'auto' on a.j2k: the jp2 handler's write was called
C7_Witness ==
    /\ call.api = "write_file"
    /\ pc = "done"
    /\ call.filetype = s_auto
    /\ call.file.path = <<"a", ".">> \o s_j2k
    /\ Invoked
    /\ outcome.handler = Module(s_jp2)
    /\ outcome.op = s_write

(***************************************************************************)
(* C8.  read_file and read_file_header accept a bare extension as the      *)
(* filetype: each of fts, fits, jp2, j2k, jpc, jpt, fz, f0 dispatches the  *)
(* operation to the handler of the tag the extension belongs to.           *)
(***************************************************************************)
C8_ExtensionAsFiletype ==
    (IsReadCall /\ call.filetype \in KnownExtensions /\ pc = "done") =>
        DispatchedTo(GroupTag(call.filetype), call.function_name)

C10_CardNeedsKeyword ==
    sniff.kind # "none" =>
        ((sniff.kind = "tag" /\ sniff.tag = s_fits)
            <=> (HasProbe(call.file) /\ CardShape(ProbeOf(call.file), 1)))

(***************************************************************************)
(* C10, amended.  fits is returned exactly when the (possibly              *)
(* decompressed) first 80 bytes begin with 0 to 8 keyword characters, then *)
(* zero or more spaces, then '=': a probe that begins with '=' or with     *)
(* spaces and '=' is classified as fits too.                               *)
(***************************************************************************)
C10_CardPattern ==
    sniff.kind # "none" =>
        ((sniff.kind = "tag" /\ sniff.tag = s_fits)
            <=> (HasProbe(call.file) /\ CardShape(ProbeOf(call.file), 0)))

\* a stream that begins with '=' was detected as fits
C10_Witness ==
    /\ call.api = "detect_filetype"
    /\ pc = "done"
    /\ call.file.data = <<61>>
    /\ outcome.kind = "returned"
    /\ outcome.key = s_fits

====
